---- MODULE Spec2Model ----
(***************************************************************************)
(* fetch-statkart.py: fetch a rectangular grid of map tiles into an        *)
(* on-disk cache with a pool of worker threads, then paste the cached      *)
(* tiles into one image and save it.                                       *)
(*                                                                         *)
(* The main thread (main, fetch_missing) and the worker threads (one       *)
(* Tile.fetch per submitted tile) interleave at every network and          *)
(* filesystem call.  The filesystem is the shared state.                   *)
(***************************************************************************)
EXTENDS Integers, Sequences, FiniteSets, TLC

VARIABLES
    args,            \* parse_args(): layer, zoom, x_min, y_min, x_max, y_max
    net,             \* remote server: tile -> the outcomes a GET of it can have
    files0,          \* the files of the cache when the run began
    output0,         \* the output file when the run began
    files,           \* filesystem: path of a regular file -> its bytes
    dirs,            \* filesystem: the directories that exist
    mainPc,          \* position of the main thread
    tiles,           \* main: the list of Tile objects
    tiles_to_fetch,  \* fetch_missing: the tiles found not cached
    submitted,       \* fetch_missing: how many of tiles_to_fetch were submitted
    work_queue,      \* executor: submitted work items no worker has taken yet
    fut,             \* per tile: position of its Tile.fetch call, r, exception
    gets,            \* per tile: number of GET requests issued for it
    fmResult,        \* how the call of fetch_missing ended
    image,           \* main: the PIL image being built
    pasted,          \* main: number of tiles opened and pasted so far
    mainErr,         \* the uncaught exception that ended main, if any
    output           \* the output file in the working directory

vars == <<args, net, files0, output0, files, dirs, mainPc, tiles, tiles_to_fetch, submitted,
          work_queue, fut, gets, fmResult, image, pasted, mainErr, output>>

(***************************************************************************)
(* Bounds of the model.                                                    *)
(***************************************************************************)
MaxCoord == 2      \* small grids lie within 0..MaxCoord in x and in y
MaxTiles == 2      \* small grids hold at most this many tiles
Over == 1          \* the wide grid holds max_workers + Over tiles
MaxGridTiles == 4  \* fully cached grids hold at most this many tiles

(***************************************************************************)
(* Program constants.                                                      *)
(***************************************************************************)
max_workers == 10  \* ThreadPoolExecutor(max_workers=10)
TILE_SIZE == 256   \* pixels per tile edge in main's offsets and image size

None == "None"

(***************************************************************************)
(* Paths.  A path is a sequence of components, a component a sequence of   *)
(* characters.  str() of a non-negative integer is its decimal digits.     *)
(***************************************************************************)
Digits == <<"0", "1", "2", "3", "4", "5", "6", "7", "8", "9">>

RECURSIVE Str(_)
Str(n) == IF n < 10 THEN <<Digits[n + 1]>>
          ELSE Str(n \div 10) \o <<Digits[(n % 10) + 1]>>

CACHE_DIR == <<<<".cache">>>>

Tile(layer, zoom, x, y) == [layer |-> layer, zoom |-> zoom, x |-> x, y |-> y]

\* mutant: the x component is left out of the path
cache_path_no_x(tile) ==
    CACHE_DIR \o <<<<tile.layer>>, Str(tile.zoom), Str(tile.y)>>

cache_path(tile) ==
    CACHE_DIR \o <<<<tile.layer>>, Str(tile.zoom), Str(tile.x), Str(tile.y)>>

dirname(path) == SubSeq(path, 1, Len(path) - 1)

tmp_path(tile) ==
    LET p == cache_path(tile)
    IN  [p EXCEPT ![Len(p)] = @ \o <<".tmp">>]

exists(path) == path \in DOMAIN files \/ path \in dirs

isdir(path) == path \in dirs

is_cached(tile) == exists(cache_path(tile))

(***************************************************************************)
(* The remote server and the bytes of a tile.                              *)
(***************************************************************************)
Magic == 137       \* first byte of a PNG file

\* one colour per tile (distinct while x < 16)
Colour(tile) == 1 + tile.x + 16 * tile.y

\* the body of a tile image: a header byte and the colour
TileBytes(tile) == <<Magic, Colour(tile)>>

\* a body that is no image (an error page)
Garbage == <<0, 0>>

Response(status, content) == [status |-> status, content |-> content]

\* requests.get raised ConnectionError: there is no response
NoResponse == Response(0, <<>>)

\* every outcome of requests.get(tile.url)
AnyOutcome(tile) == {NoResponse,
                     Response(200, TileBytes(tile)),
                     Response(304, <<>>),
                     Response(404, Garbage)}

\* Response.raise_for_status(): raises HTTPError for 4xx and 5xx
raise_for_status(r) == 400 <= r.status /\ r.status < 600

\* PIL.Image.open(path) and the load done by paste: the decoded tile image
Decodable(bytes) == Len(bytes) = 2 /\ bytes[1] = Magic

Decode(bytes) == [size |-> <<TILE_SIZE, TILE_SIZE>>, colour |-> bytes[2]]

(***************************************************************************)
(* main, lines 73-76: the tile list, y outer, x inner.                     *)
(***************************************************************************)
\* mutant: range(x_min, x_max) leaves the last column out
RECURSIVE RowTilesExclusive(_, _, _, _)
RowTilesExclusive(a, y, x, acc) ==
    IF x >= a.x_max THEN acc
    ELSE RowTilesExclusive(a, y, x + 1, Append(acc, Tile(a.layer, a.zoom, x, y)))

RECURSIVE RowTiles(_, _, _, _)
RowTiles(a, y, x, acc) ==
    IF x > a.x_max THEN acc
    ELSE RowTiles(a, y, x + 1, Append(acc, Tile(a.layer, a.zoom, x, y)))

RECURSIVE GridTiles(_, _, _)
GridTiles(a, y, acc) ==
    IF y > a.y_max THEN acc
    ELSE GridTiles(a, y + 1, RowTiles(a, y, a.x_min, acc))

MainTiles(a) == GridTiles(a, a.y_min, <<>>)

Range(s) == {s[i] : i \in DOMAIN s}

(***************************************************************************)
(* Initial states: the command line, the cache left by earlier runs, and   *)
(* the behaviour of the remote server.                                     *)
(***************************************************************************)
Layers == {"norgeskart_bakgrunn"}
Zooms == {10}

Args(layer, zoom, x_min, y_min, x_max, y_max) ==
    [layer |-> layer, zoom |-> zoom, x_min |-> x_min, y_min |-> y_min,
     x_max |-> x_max, y_max |-> y_max]

Width(a) == a.x_max - a.x_min + 1
Height(a) == a.y_max - a.y_min + 1

SmallArgs ==
    {a \in {Args(l, z, x0, y0, x1, y1) :
                l \in Layers, z \in Zooms,
                x0 \in 0..MaxCoord, y0 \in 0..MaxCoord,
                x1 \in 0..MaxCoord, y1 \in 0..MaxCoord} :
        /\ a.x_min <= a.x_max
        /\ a.y_min <= a.y_max
        /\ Width(a) * Height(a) <= MaxTiles}

\* grids that are run with every tile in the cache
CachedArgs ==
    {a \in {Args(l, z, x0, y0, x1, y1) :
                l \in Layers, z \in Zooms,
                x0 \in 0..MaxCoord, y0 \in 0..MaxCoord,
                x1 \in 0..MaxCoord, y1 \in 0..MaxCoord} :
        /\ a.x_min <= a.x_max
        /\ a.y_min <= a.y_max
        /\ Width(a) * Height(a) <= MaxGridTiles}

WideArgs ==
    {Args(l, z, 0, 0, max_workers + Over - 1, 0) : l \in Layers, z \in Zooms}

\* what is at the canonical path of each tile before the run: nothing, a
\* tile image, bytes that are no image, or a directory
CacheStates(a) ==
    [Range(MainTiles(a)) -> {"absent", "image", "garbage", "directory"}]

FilesOf(a, c) ==
    LET cached == {t \in Range(MainTiles(a)) : c[t] \in {"image", "garbage"}}
        tileAt(p) == CHOOSE t \in cached : cache_path(t) = p
    IN  [p \in {cache_path(t) : t \in cached} |->
            IF c[tileAt(p)] = "image" THEN TileBytes(tileAt(p)) ELSE Garbage]

\* the directories of the cache before the run: those at canonical paths,
\* the parents of every entry, and any of the other tile directories
DirsOf(a, c, extra) ==
    LET at == {cache_path(t) : t \in {u \in Range(MainTiles(a)) : c[u] = "directory"}}
    IN  at \cup {dirname(p) : p \in at \cup DOMAIN FilesOf(a, c)} \cup extra

\* no image yet
NoImage == [size |-> <<0, 0>>, pastes |-> <<>>]

\* an output file left by an earlier run
OldImage == [size |-> <<TILE_SIZE, TILE_SIZE>>, pastes |-> <<>>]

Init ==
    /\ \/ /\ args \in SmallArgs
          /\ net = [t \in Range(MainTiles(args)) |-> AnyOutcome(t)]
          /\ \E c \in CacheStates(args) :
                /\ files = FilesOf(args, c)
                /\ \E extra \in SUBSET {dirname(cache_path(t)) :
                                            t \in Range(MainTiles(args))} :
                      dirs = DirsOf(args, c, extra)
       \/ /\ args \in CachedArgs
          /\ net = [t \in Range(MainTiles(args)) |-> AnyOutcome(t)]
          /\ LET c == [t \in Range(MainTiles(args)) |-> "image"]
             IN  /\ files = FilesOf(args, c)
                 /\ dirs = DirsOf(args, c, {})
       \/ /\ args \in WideArgs
          \* the server is unreachable for every tile but the last
          /\ net = [t \in Range(MainTiles(args)) |->
                        IF t.x = args.x_max
                        THEN {Response(200, TileBytes(t))}
                        ELSE {NoResponse}]
          /\ files = FilesOf(args, [t \in Range(MainTiles(args)) |-> "absent"])
          /\ dirs = {}
    /\ files0 = files
    /\ output \in {<<>>, <<OldImage>>}
    /\ output0 = output
    /\ mainPc = "tiles"
    /\ tiles = <<>>
    /\ tiles_to_fetch = <<>>
    /\ submitted = 0
    /\ work_queue = <<>>
    /\ fut = [t \in Range(MainTiles(args)) |->
                [pc |-> "none", r |-> NoResponse, exc |-> None]]
    /\ gets = [t \in Range(MainTiles(args)) |-> 0]
    /\ fmResult = None
    /\ image = NoImage
    /\ pasted = 0
    /\ mainErr = None

(***************************************************************************)
(* The main thread.                                                        *)
(***************************************************************************)
\* main, lines 73-76
BuildTiles ==
    /\ mainPc = "tiles"
    /\ tiles' = MainTiles(args)
    /\ mainPc' = "scan"
    /\ UNCHANGED <<args, net, files0, output0, files, dirs, tiles_to_fetch, submitted,
                   work_queue, fut, gets, fmResult, image, pasted, mainErr,
                   output>>

\* mutant: the test of is_cached is inverted
MissingInverted(ts) == SelectSeq(ts, LAMBDA t : is_cached(t))

\* mutant: every tile is fetched again
MissingAll(ts) == ts

\* fetch_missing, line 62: [ tile for tile in tiles if not tile.is_cached ]
Missing(ts) == SelectSeq(ts, LAMBDA t : ~is_cached(t))

Scan ==
    /\ mainPc = "scan"
    /\ tiles_to_fetch' = Missing(tiles)
    /\ mainPc' = "submit"
    /\ UNCHANGED <<args, net, files0, output0, files, dirs, tiles, submitted, work_queue, fut,
                   gets, fmResult, image, pasted, mainErr, output>>

\* fetch_missing, lines 65-66: executor.submit(tile.fetch)
Submit ==
    /\ mainPc = "submit"
    /\ submitted < Len(tiles_to_fetch)
    /\ LET t == tiles_to_fetch[submitted + 1]
       IN  /\ work_queue' = Append(work_queue, t)
           /\ fut' = [fut EXCEPT ![t].pc = "queued"]
    /\ submitted' = submitted + 1
    /\ UNCHANGED <<args, net, files0, output0, files, dirs, mainPc, tiles, tiles_to_fetch,
                   gets, fmResult, image, pasted, mainErr, output>>

Running == {"get", "isdir", "makedirs", "open", "write", "rename"}

InFlight == {t \in DOMAIN fut : fut[t].pc \in Running}

\* mutant: shutdown(wait=False)
ShutdownNoWait == TRUE

\* leaving the with block of line 64 is executor.shutdown(wait=True): it
\* returns once the queue is drained and every worker has ended
ShutdownComplete == work_queue = <<>> /\ InFlight = {}

\* fetch_missing, end of the with block and line 67; the futures are dropped
FetchMissingReturn ==
    /\ mainPc = "submit"
    /\ submitted = Len(tiles_to_fetch)
    /\ ShutdownComplete
    /\ fmResult' = "returned"
    /\ mainPc' = "image"
    /\ UNCHANGED <<args, net, files0, output0, files, dirs, tiles, tiles_to_fetch, submitted,
                   work_queue, fut, gets, image, pasted, mainErr, output>>

\* main, lines 79-82
NewImage ==
    /\ mainPc = "image"
    /\ image' = [size |-> <<Width(args) * TILE_SIZE, Height(args) * TILE_SIZE>>,
                 pastes |-> <<>>]
    /\ mainPc' = "paste"
    /\ UNCHANGED <<args, net, files0, output0, files, dirs, tiles, tiles_to_fetch, submitted,
                   work_queue, fut, gets, fmResult, pasted, mainErr, output>>

\* mutant: the offsets step by half a tile
BoxHalf(tile) ==
    <<(tile.x - args.x_min) * (TILE_SIZE \div 2),
      (tile.y - args.y_min) * (TILE_SIZE \div 2)>>

\* mutant: the offsets are not taken from the corner of the grid
BoxNoOrigin(tile) == <<tile.x * TILE_SIZE, tile.y * TILE_SIZE>>

\* main, lines 84-85
Box(tile) == <<(tile.x - args.x_min) * TILE_SIZE, (tile.y - args.y_min) * TILE_SIZE>>

\* the exception of PIL.Image.open(path) and of the load in paste, or None
OpenError(path) ==
    IF path \in dirs THEN "IsADirectoryError"
    ELSE IF path \notin DOMAIN files THEN "FileNotFoundError"
    ELSE IF ~Decodable(files[path]) THEN "UnidentifiedImageError"
    ELSE None

\* mutant: a tile that cannot be opened is skipped
PasteSkip ==
    /\ mainPc = "paste"
    /\ pasted < Len(tiles)
    /\ pasted' = pasted + 1
    /\ LET tile == tiles[pasted + 1]
       IN  IF OpenError(cache_path(tile)) # None
           THEN UNCHANGED image
           ELSE image' = [image EXCEPT !.pastes =
                            Append(@, [box |-> Box(tile),
                                       im |-> Decode(files[cache_path(tile)])])]
    /\ UNCHANGED <<args, net, files0, output0, files, dirs, tiles,
                   tiles_to_fetch, submitted, work_queue, fut, gets, fmResult,
                   mainErr, mainPc, output>>

\* main, lines 83-87: one iteration of the loop
Paste ==
    /\ mainPc = "paste"
    /\ pasted < Len(tiles)
    /\ LET tile == tiles[pasted + 1]
           e == OpenError(cache_path(tile))
       IN  IF e # None
           THEN /\ mainErr' = e
                /\ mainPc' = "exit"
                /\ UNCHANGED <<image, pasted>>
           ELSE /\ image' = [image EXCEPT !.pastes =
                                Append(@, [box |-> Box(tile),
                                           im |-> Decode(files[cache_path(tile)])])]
                /\ pasted' = pasted + 1
                /\ UNCHANGED <<mainErr, mainPc>>
    /\ UNCHANGED <<args, net, files0, output0, files, dirs, tiles, tiles_to_fetch, submitted,
                   work_queue, fut, gets, fmResult, output>>

\* Image.paste(im, box) with no mask overwrites the pixels of the image
\* that lie in the box: the pastes, in order, that cover a pixel
Covering(pastes, px, py) ==
    {i \in DOMAIN pastes :
        /\ pastes[i].box[1] <= px /\ px < pastes[i].box[1] + pastes[i].im.size[1]
        /\ pastes[i].box[2] <= py /\ py < pastes[i].box[2] + pastes[i].im.size[2]}

\* the content of a pixel after the pastes: <<>> where Image.new left it,
\* else the colour of the last paste that covers it
PixelAt(pastes, px, py) ==
    LET c == Covering(pastes, px, py)
    IN  IF c = {} THEN <<>>
        ELSE <<pastes[CHOOSE i \in c : \A j \in c : j <= i].im.colour>>

\* main, lines 88-97
Save ==
    /\ mainPc = "paste"
    /\ pasted = Len(tiles)
    /\ output' = <<image>>
    /\ mainPc' = "exit"
    /\ UNCHANGED <<args, net, files0, output0, files, dirs, tiles, tiles_to_fetch, submitted,
                   work_queue, fut, gets, fmResult, image, pasted, mainErr>>

(***************************************************************************)
(* The worker threads: one call of Tile.fetch per work item.               *)
(***************************************************************************)
\* mutant: an exception ends every task in flight
RaiseAll(f, t, e) ==
    [u \in DOMAIN f |->
        IF u = t \/ f[u].pc \in Running
        THEN [f[u] EXCEPT !.pc = "failed", !.exc = e]
        ELSE f[u]]

\* an exception leaves Tile.fetch and is kept in the future
Raise(f, t, e) == [f EXCEPT ![t].pc = "failed", ![t].exc = e]

\* mutant: a worker that ran a work item is never free again
WorkerNeverFreed ==
    Cardinality({t \in DOMAIN fut : fut[t].pc \notin {"none", "queued"}})
        < max_workers

\* mutant: the pool has no limit
WorkerAlwaysFree == TRUE

\* a worker may take a work item
WorkerFree == Cardinality(InFlight) < max_workers

\* a worker thread takes the oldest work item and calls it
Start(t) ==
    /\ work_queue # <<>>
    /\ t = Head(work_queue)
    /\ WorkerFree
    /\ work_queue' = Tail(work_queue)
    /\ fut' = [fut EXCEPT ![t].pc = "get"]
    /\ UNCHANGED <<args, net, files0, output0, files, dirs, mainPc, tiles, tiles_to_fetch,
                   submitted, gets, fmResult, image, pasted, mainErr, output>>

\* Tile.fetch, lines 26-27
Get(t) ==
    /\ fut[t].pc = "get"
    /\ gets' = [gets EXCEPT ![t] = @ + 1]
    /\ \E o \in net[t] :
          IF o = NoResponse
          THEN fut' = Raise(fut, t, "ConnectionError")
          ELSE IF raise_for_status(o)
          THEN fut' = Raise([fut EXCEPT ![t].r = o], t, "HTTPError")
          ELSE fut' = [fut EXCEPT ![t].r = o, ![t].pc = "isdir"]
    /\ UNCHANGED <<args, net, files0, output0, files, dirs, mainPc, tiles, tiles_to_fetch,
                   submitted, work_queue, fmResult, image, pasted, mainErr,
                   output>>

\* Tile.fetch, lines 28-29
IsDir(t) ==
    /\ fut[t].pc = "isdir"
    /\ fut' = [fut EXCEPT ![t].pc =
                 IF isdir(dirname(cache_path(t))) THEN "open" ELSE "makedirs"]
    /\ UNCHANGED <<args, net, files0, output0, files, dirs, mainPc, tiles, tiles_to_fetch,
                   submitted, work_queue, gets, fmResult, image, pasted,
                   mainErr, output>>

\* Tile.fetch, line 30: os.makedirs(cache_dir), exist_ok left False
MakeDirs(t) ==
    /\ fut[t].pc = "makedirs"
    /\ LET d == dirname(cache_path(t))
       IN  IF exists(d)
           THEN /\ fut' = Raise(fut, t, "FileExistsError")
                /\ UNCHANGED dirs
           ELSE /\ dirs' = dirs \cup {d}
                /\ fut' = [fut EXCEPT ![t].pc = "open"]
    /\ UNCHANGED <<args, net, files0, output0, files, mainPc, tiles, tiles_to_fetch, submitted,
                   work_queue, gets, fmResult, image, pasted, mainErr, output>>

\* the file system after path is given the bytes
WriteFile(fs, path, bytes) ==
    [p \in DOMAIN fs \cup {path} |-> IF p = path THEN bytes ELSE fs[p]]

\* mutant: the file is renamed before its last byte is flushed
RenameUnflushed(fs, src, dst) ==
    [p \in (DOMAIN fs \ {src}) \cup {dst} |->
        IF p = dst THEN SubSeq(fs[src], 1, Len(fs[src]) - 1) ELSE fs[p]]

\* mutant: the rename replaces the whole cache by the one file
RenameClearsOthers(fs, src, dst) == [p \in {dst} |-> fs[src]]

\* mutant: the rename is lost
RenameLost(fs, src, dst) == fs

\* the file system after os.rename(src, dst)
RenameFile(fs, src, dst) ==
    [p \in (DOMAIN fs \ {src}) \cup {dst} |-> IF p = dst THEN fs[src] ELSE fs[p]]

\* mutant: the body is written in place at the canonical path
WritePathInPlace(t) == cache_path(t)

\* the path Tile.fetch opens for writing, line 31
WritePath(t) == tmp_path(t)

\* Tile.fetch, line 32: open(tmp_path, 'wb') creates or truncates the file
Open(t) ==
    /\ fut[t].pc = "open"
    /\ files' = WriteFile(files, WritePath(t), <<>>)
    /\ fut' = [fut EXCEPT ![t].pc = "write"]
    /\ UNCHANGED <<args, net, files0, output0, dirs, mainPc, tiles, tiles_to_fetch, submitted,
                   work_queue, gets, fmResult, image, pasted, mainErr, output>>

\* Tile.fetch, line 33: the bytes reach the file one after another
Write(t) ==
    /\ fut[t].pc = "write"
    /\ LET n == Len(files[WritePath(t)])
       IN  /\ n < Len(fut[t].r.content)
           /\ files' = WriteFile(files, WritePath(t),
                                 SubSeq(fut[t].r.content, 1, n + 1))
    /\ UNCHANGED <<args, net, files0, output0, dirs, mainPc, tiles, tiles_to_fetch, submitted,
                   work_queue, fut, gets, fmResult, image, pasted, mainErr,
                   output>>

\* mutant: the rename runs although the write failed
WriteFailThenRename(t) ==
    /\ fut[t].pc = "write"
    /\ Len(files[WritePath(t)]) < Len(fut[t].r.content)
    /\ fut' = Raise(fut, t, "OSError")
    /\ files' = RenameFile(files, WritePath(t), cache_path(t))
    /\ UNCHANGED <<args, net, files0, output0, dirs, mainPc, tiles,
                   tiles_to_fetch, submitted, work_queue, gets, fmResult,
                   image, pasted, mainErr, output>>

\* Tile.fetch, line 33: a write fails (disk full, I/O error); the with
\* statement closes the file and the exception leaves fetch
WriteFail(t) ==
    /\ fut[t].pc = "write"
    /\ Len(files[WritePath(t)]) < Len(fut[t].r.content)
    /\ fut' = Raise(fut, t, "OSError")
    /\ UNCHANGED <<args, net, files0, output0, files, dirs, mainPc, tiles, tiles_to_fetch,
                   submitted, work_queue, gets, fmResult, image, pasted,
                   mainErr, output>>

\* Tile.fetch, end of the with block of line 32: the file is closed
Close(t) ==
    /\ fut[t].pc = "write"
    /\ Len(files[WritePath(t)]) = Len(fut[t].r.content)
    /\ fut' = [fut EXCEPT ![t].pc = "rename"]
    /\ UNCHANGED <<args, net, files0, output0, files, dirs, mainPc, tiles, tiles_to_fetch,
                   submitted, work_queue, gets, fmResult, image, pasted,
                   mainErr, output>>

\* Tile.fetch, line 34
Rename(t) ==
    /\ fut[t].pc = "rename"
    /\ files' = RenameFile(files, WritePath(t), cache_path(t))
    /\ fut' = [fut EXCEPT ![t].pc = "done"]
    /\ UNCHANGED <<args, net, files0, output0, dirs, mainPc, tiles, tiles_to_fetch, submitted,
                   work_queue, gets, fmResult, image, pasted, mainErr, output>>

Next ==
    \/ BuildTiles
    \/ Scan
    \/ Submit
    \/ FetchMissingReturn
    \/ NewImage
    \/ Paste
    \/ Save
    \/ \E t \in DOMAIN fut : Start(t)
    \/ \E t \in DOMAIN fut : Get(t)
    \/ \E t \in DOMAIN fut : IsDir(t)
    \/ \E t \in DOMAIN fut : MakeDirs(t)
    \/ \E t \in DOMAIN fut : Open(t)
    \/ \E t \in DOMAIN fut : Write(t)
    \/ \E t \in DOMAIN fut : WriteFail(t)
    \/ \E t \in DOMAIN fut : Close(t)
    \/ \E t \in DOMAIN fut : Rename(t)

Spec == Init /\ [][Next]_vars

\* every thread that can take a step takes one: the main thread and the
\* worker threads are scheduled, and the request or the filesystem call a
\* thread is in returns
LiveSpec == Spec /\ WF_vars(Next)

(***************************************************************************)
(* Properties.                                                             *)
(***************************************************************************)
Tiles == DOMAIN fut

Dispatched == Range(tiles_to_fetch)

\* is_cached when the input was scanned: no step adds or removes a
\* directory at a canonical path
CachedAtStart(t) == cache_path(t) \in DOMAIN files0 \/ cache_path(t) \in dirs

Finished(t) == fut[t].pc \in {"done", "failed"}

StorePcs == {"isdir", "makedirs", "open", "write", "rename"}

\* C1: the file at a tile's canonical cache path is absent, or the complete
\* file the run found there, or the complete body of the tile's response
\* after its rename; partial content exists at the '.tmp' path only.
C1_CanonicalComplete ==
    \A t \in Tiles :
        LET p == cache_path(t)
        IN  p \in DOMAIN files =>
               \/ CachedAtStart(t) /\ files[p] = files0[p]
               \/ fut[t].pc = "done" /\ files[p] = fut[t].r.content

\* one tile is complete at its canonical path while another task has
\* written only a part of its body to its '.tmp' path
C1_Witness ==
    \E t, u \in Tiles :
        /\ t # u
        /\ fut[t].pc = "done"
        /\ cache_path(t) \in DOMAIN files
        /\ fut[u].pc = "write"
        /\ tmp_path(u) \in DOMAIN files
        /\ Len(files[tmp_path(u)]) = 1
        /\ Len(fut[u].r.content) = 2

\* C2: no fetch task ends in an error caused by the shared directory
\* already existing.
C2_NoDirectoryRaceError ==
    \A t \in Tiles : fut[t].exc # "FileExistsError"

\* C3: once fetch_missing has returned every dispatched task has finished,
\* so the compositing phase never runs while a fetch task is queued or in
\* flight.
C3_ReturnAfterAllFinished ==
    (fmResult # None \/ mainPc \in {"image", "paste", "exit"}) =>
        /\ submitted = Len(tiles_to_fetch)
        /\ work_queue = <<>>
        /\ \A t \in Dispatched : Finished(t)

\* the compositor has opened the cache file of a tile this run fetched
C3_Witness ==
    /\ mainPc = "paste"
    /\ pasted >= 1
    /\ fut[tiles[1]].pc = "done"
    /\ \E t \in Dispatched : fut[t].pc = "failed"

\* C4: the outcome of fetch_missing is a failure carrying the error of
\* every failed tile whenever a dispatched task failed, and a success only
\* when every dispatched task succeeded.
C4_FailureReported ==
    fmResult # None =>
        (fmResult = "returned" <=> \A t \in Dispatched : fut[t].pc = "done")

\* C5: at most max_workers fetch tasks have started and not yet finished.
C5_AtMostTenInFlight ==
    Cardinality(InFlight) <= max_workers

\* ten tasks are in flight and a submitted task waits for a worker
C5_Witness ==
    /\ Cardinality(InFlight) = max_workers
    /\ work_queue # <<>>

Count(seq, t) == Cardinality({i \in DOMAIN seq : seq[i] = t})

\* C6: exactly one task, and one request, for each tile not cached when the
\* input was scanned, none for a cached tile; with every tile cached no
\* request is issued and the call returns.
C6_OneTaskPerMissingTile ==
    /\ \A t \in Tiles : gets[t] <= Count(tiles_to_fetch, t)
    /\ mainPc \notin {"tiles", "scan"} =>
          \A t \in Tiles :
             Count(tiles_to_fetch, t) = IF CachedAtStart(t) THEN 0 ELSE 1
    /\ fmResult # None =>
          \A t \in Tiles : gets[t] = IF CachedAtStart(t) THEN 0 ELSE 1
    /\ (mainPc = "submit" /\ \A t \in Tiles : CachedAtStart(t)) =>
          ENABLED FetchMissingReturn

\* the call has returned over a grid with a cached and a missing tile
C6_Witness ==
    /\ fmResult = "returned"
    /\ \E t, u \in Tiles :
          /\ CachedAtStart(t) /\ gets[t] = 0 /\ fut[t].pc = "none"
          /\ ~CachedAtStart(u) /\ gets[u] = 1

\* the failure of a task is the failure of one of its own steps
OwnFailure(t) ==
    /\ gets[t] = 1
    /\ \/ fut[t].exc = "ConnectionError" /\ fut[t].r = NoResponse
       \/ fut[t].exc = "HTTPError" /\ raise_for_status(fut[t].r)
       \/ /\ fut[t].exc = "FileExistsError"
          /\ fut[t].r.status = 200 \/ fut[t].r.status = 304
          /\ dirname(cache_path(t)) \in dirs
       \/ /\ fut[t].exc = "OSError"
          /\ tmp_path(t) \in DOMAIN files
          /\ Len(files[tmp_path(t)]) < Len(fut[t].r.content)

\* C7: when a task fails, every other dispatched task still runs to its
\* own completion: when fetch_missing returns each has issued its GET and
\* has ended by its own success or its own failure, and each that
\* succeeded is cached with its body.
C7_FailureDoesNotCancelSiblings ==
    /\ \A t \in Tiles : fut[t].pc = "failed" => OwnFailure(t)
    /\ fmResult # None =>
          \A t \in Dispatched :
             /\ gets[t] = 1
             /\ Finished(t)
             /\ fut[t].pc = "done" =>
                   /\ cache_path(t) \in DOMAIN files
                   /\ files[cache_path(t)] = fut[t].r.content

\* fetch_missing has returned, one task failed and a sibling is cached
C7_Witness ==
    /\ fmResult = "returned"
    /\ \E t, u \in Dispatched :
          /\ fut[t].pc = "failed"
          /\ fut[u].pc = "done"
          /\ is_cached(u)

NonSuccess(r) == r # NoResponse /\ ~(200 <= r.status /\ r.status < 300)

\* C8: a tile whose GET returned a non-success status has no file at its
\* canonical path nor at its '.tmp' path, and the composition then ends in
\* the not-cached error without writing the output.
C8_NonSuccessLeavesNoFile ==
    \A t \in Tiles :
        NonSuccess(fut[t].r) =>
            /\ cache_path(t) \notin DOMAIN files
            /\ tmp_path(t) \notin DOMAIN files
            /\ mainPc = "exit" =>
                  mainErr = "FileNotFoundError" /\ output = output0

\* the first tile, in the order of the list, that cannot be opened
FirstBad ==
    LET bad == {i \in DOMAIN tiles : OpenError(cache_path(tiles[i])) # None}
    IN  IF bad = {} THEN 0 ELSE CHOOSE i \in bad : \A j \in bad : i <= j

\* C9: the output file is written only after every tile was opened and
\* pasted; when a tile is absent or undecodable the run ends at the first
\* such tile with its error and the output file is as it was.
C9_NoPartialImage ==
    /\ output # output0 =>
          /\ mainPc = "exit"
          /\ mainErr = None
          /\ FirstBad = 0
          /\ pasted = Len(tiles)
          /\ Len(output[1].pastes) = Len(tiles)
    /\ (mainPc = "exit" /\ FirstBad # 0) =>
          /\ output = output0
          /\ pasted = FirstBad - 1
          /\ mainErr = OpenError(cache_path(tiles[FirstBad]))

\* the run ended at its second tile, the first pasted, the output as it was
C9_Witness ==
    /\ mainPc = "exit"
    /\ FirstBad = 2
    /\ pasted = 1
    /\ mainErr # None
    /\ output = output0

\* C10: a dispatched tile is not cached when its store begins (nor until
\* its rename), and is cached once its store has completed.
C10_CachedExactlyAfterStore ==
    \A t \in Tiles :
        /\ fut[t].pc \in StorePcs => ~is_cached(t)
        /\ fut[t].pc = "done" => is_cached(t)

\* one store has completed while another has begun
C10_Witness ==
    \E t, u \in Tiles :
        /\ fut[t].pc = "done" /\ is_cached(t)
        /\ fut[u].pc = "isdir" /\ ~is_cached(u)

\* C11: the bytes the compositor reads at the canonical path of a tile this
\* run fetched are the response body stored for it: the file holds the
\* body once the fetch has succeeded, and the image pasted for the tile is
\* the image those bytes decode to.
C11_StoreLoadRoundTrip ==
    /\ \A t \in Tiles :
          fut[t].pc = "done" =>
             /\ cache_path(t) \in DOMAIN files
             /\ files[cache_path(t)] = fut[t].r.content
    /\ \A i \in DOMAIN image.pastes :
          fut[tiles[i]].pc = "done" =>
             image.pastes[i].im = Decode(fut[tiles[i]].r.content)

\* two tiles fetched in this run have both been read back and pasted
C11_Witness ==
    /\ Len(image.pastes) = 2
    /\ fut[tiles[1]].pc = "done"
    /\ fut[tiles[2]].pc = "done"

\* C12: the tile list holds exactly W*H tiles in row-major order and the
\* image is (W*256) x (H*256) pixels.
C12_GridAndImageSize ==
    LET W == args.x_max - args.x_min + 1
        H == args.y_max - args.y_min + 1
    IN  /\ mainPc # "tiles" =>
              /\ Len(tiles) = W * H
              /\ \A k \in DOMAIN tiles :
                    /\ tiles[k].x = args.x_min + ((k - 1) % W)
                    /\ tiles[k].y = args.y_min + ((k - 1) \div W)
                    /\ tiles[k].layer = args.layer
                    /\ tiles[k].zoom = args.zoom
        /\ mainPc \in {"paste", "exit"} => image.size = <<W * 256, H * 256>>
        /\ output # output0 => output[1].size = <<W * 256, H * 256>>

\* the image of a grid of two columns and two rows has been saved
C12_Witness ==
    /\ output # output0
    /\ args.x_max = args.x_min + 1
    /\ args.y_max = args.y_min + 1
    /\ Len(tiles) = 4

\* C13: when the write of the temporary file fails the rename is not
\* run: the task has failed, the canonical path stays absent and is_cached
\* stays false.
C13_FailedWriteLeavesNoEntry ==
    \A t \in Tiles :
        fut[t].exc = "OSError" =>
            /\ fut[t].pc = "failed"
            /\ cache_path(t) \notin DOMAIN files
            /\ ~is_cached(t)

\* a write failed after one of its two bytes reached the '.tmp' path
C13_Witness ==
    \E t \in Tiles :
        /\ fut[t].exc = "OSError"
        /\ tmp_path(t) \in DOMAIN files
        /\ Len(files[tmp_path(t)]) = 1
        /\ fmResult = "returned"

\* C14: is_cached is true exactly when a regular file is at the canonical
\* path: false when the path is absent and false when it is a directory.
C14_CachedIffRegularFile ==
    \A t \in Tiles : is_cached(t) <=> cache_path(t) \in DOMAIN files

\* the tasks that hold a file open for writing or are about to rename it
Writers == {t \in Tiles : fut[t].pc \in {"write", "rename"}}

\* C15: the canonical paths and the '.tmp' paths of the tiles of the grid
\* main builds are pairwise distinct and no '.tmp' path is a canonical
\* path (the list and the paths are fixed once the list is built), so no
\* two tasks ever write or rename the same file.
C15_WritersTargetDistinctFiles ==
    /\ mainPc = "scan" =>
          /\ \A i, j \in DOMAIN tiles : i # j => tiles[i] # tiles[j]
          /\ \A t, u \in Range(tiles) :
                /\ tmp_path(t) # cache_path(u)
                /\ t # u => /\ cache_path(t) # cache_path(u)
                            /\ tmp_path(t) # tmp_path(u)
    /\ \A t, u \in Writers :
          t # u => /\ WritePath(t) # WritePath(u)
                   /\ WritePath(t) # cache_path(u)
                   /\ cache_path(t) # cache_path(u)

\* two tasks are writing at once
C15_Witness ==
    \E t, u \in Tiles :
        /\ t # u
        /\ fut[t].pc = "write" /\ tmp_path(t) \in DOMAIN files
        /\ fut[u].pc = "write" /\ tmp_path(u) \in DOMAIN files

\* the pixel coordinates along one axis at which the content of the image
\* can change: next to an edge of the image or of a box
Samples(size, lows) ==
    {v \in {0, size - 1} \cup UNION {{b - 1, b, b + 255, b + 256} : b \in lows} :
        0 <= v /\ v < size}

SamplesX(img) ==
    Samples(img.size[1], {img.pastes[i].box[1] : i \in DOMAIN img.pastes})

SamplesY(img) ==
    Samples(img.size[2], {img.pastes[i].box[2] : i \in DOMAIN img.pastes})

\* C16: once every tile of the grid is pasted, the pastes made in any
\* other order give every pixel the same content.
C16_PasteOrderIrrelevant ==
    (mainPc \in {"paste", "exit"} /\ pasted = Len(tiles)) =>
        \A perm \in Permutations(DOMAIN image.pastes) :
            LET other == [i \in DOMAIN image.pastes |-> image.pastes[perm[i]]]
            IN  \A px \in SamplesX(image), py \in SamplesY(image) :
                    PixelAt(other, px, py) = PixelAt(image.pastes, px, py)

\* the four tiles of a grid of two columns and two rows are pasted
C16_Witness ==
    /\ mainPc = "paste"
    /\ pasted = 4
    /\ args.x_max = args.x_min + 1
    /\ args.y_max = args.y_min + 1

Region(t) == [x0 |-> Box(t)[1], x1 |-> Box(t)[1] + 256,
              y0 |-> Box(t)[2], y1 |-> Box(t)[2] + 256]

\* C17: in the compositing phase the regions of the tiles of the grid are
\* pairwise disjoint, lie in the image and cover it, and after a
\* composition each pixel of the output comes from exactly one tile.
C17_RegionsTileTheImage ==
    LET W == args.x_max - args.x_min + 1
        H == args.y_max - args.y_min + 1
        r == [t \in Range(tiles) |-> Region(t)]
        xs == Samples(W * 256, {r[t].x0 : t \in Range(tiles)})
        ys == Samples(H * 256, {r[t].y0 : t \in Range(tiles)})
    IN  /\ mainPc \in {"image", "paste", "exit"} =>
              /\ \A t \in Range(tiles) :
                    /\ 0 <= r[t].x0 /\ r[t].x1 <= W * 256
                    /\ 0 <= r[t].y0 /\ r[t].y1 <= H * 256
              /\ \A t, u \in Range(tiles) :
                    t # u => \/ r[t].x1 <= r[u].x0
                             \/ r[u].x1 <= r[t].x0
                             \/ r[t].y1 <= r[u].y0
                             \/ r[u].y1 <= r[t].y0
              /\ \A px \in xs, py \in ys :
                    \E t \in Range(tiles) :
                        /\ r[t].x0 <= px /\ px < r[t].x1
                        /\ r[t].y0 <= py /\ py < r[t].y1
        /\ output # output0 =>
              \A px \in SamplesX(output[1]), py \in SamplesY(output[1]) :
                  Cardinality(Covering(output[1].pastes, px, py)) = 1

\* the image of a grid of four tiles whose corner is not the origin is saved
C17_Witness ==
    /\ output # output0
    /\ Len(tiles) = 4
    /\ args.x_min = 1
    /\ args.y_min = 1

\* C18: the file of every tile that was cached when the run began is
\* there with the same bytes in every state of the run.
C18_CachedTilesUnchanged ==
    \A t \in Tiles :
        cache_path(t) \in DOMAIN files0 =>
            /\ cache_path(t) \in DOMAIN files
            /\ files[cache_path(t)] = files0[cache_path(t)]

\* beside a tile that was cached, one task succeeded or failed
C18_Witness ==
    /\ fmResult = "returned"
    /\ \E t, u \in Tiles :
          /\ cache_path(t) \in DOMAIN files0
          /\ fut[u].pc = "done"

\* C19: no step removes or changes a cache entry: a tile that is cached
\* stays cached, with the same bytes, in the next state.
C19_CacheMonotonic ==
    [][\A t \in Tiles :
          /\ is_cached(t) => is_cached(t)'
          /\ cache_path(t) \in DOMAIN files =>
                /\ cache_path(t) \in DOMAIN files'
                /\ files'[cache_path(t)] = files[cache_path(t)]]_vars

\* the run has ended with a tile cached that was not cached at its start
C19_Witness ==
    /\ mainPc = "exit"
    /\ \E t \in Tiles : ~CachedAtStart(t) /\ is_cached(t)
    /\ \E t \in Tiles : CachedAtStart(t)

\* a step of a worker thread
WorkerStep ==
    \E t \in DOMAIN fut :
        \/ Start(t) \/ Get(t) \/ IsDir(t) \/ MakeDirs(t) \/ Open(t)
        \/ Write(t) \/ WriteFail(t) \/ Close(t) \/ Rename(t)

\* C20: when every call returns, every submitted task is started and
\* finished and fetch_missing returns, also with more tiles than workers;
\* while the pool is not drained a worker has a call that can return.
C20_FetchMissingReturns ==
    /\ []((work_queue # <<>> \/ InFlight # {}) => ENABLED WorkerStep)
    /\ <>(/\ fmResult = "returned"
          /\ \A t \in Dispatched : gets[t] = 1 /\ Finished(t))

\* fetch_missing has returned after more tasks than the pool has workers
C20_Witness ==
    /\ fmResult = "returned"
    /\ Len(tiles_to_fetch) > max_workers
    /\ \A t \in Dispatched : gets[t] = 1 /\ Finished(t)
    /\ fut[tiles_to_fetch[Len(tiles_to_fetch)]].pc = "done"

====
